---- MODULE Spec2Model ----
(***************************************************************************)
(* core-ajv-schema-validator: validateSchema, the Resolver                 *)
(* (_getSchemaFromSpecificationDoc) and the Annotator (_validateSchemaAJV) *)
(* of src/src/index.js, lines 307-613.                                     *)
(*                                                                         *)
(* Strings are sequences of tokens.  The tokens "." and "/" are the two    *)
(* separators the code splits and joins on; every other token stands for   *)
(* a run of characters that is never looked into and holds no ".", no     *)
(* bracket, no quote and no "~" (so JSON-pointer escaping and lodash's     *)
(* bracket syntax never apply).  A JavaScript value is a tree: a function *)
(* from paths (sequences of property keys) to node labels, the root being  *)
(* <<>>.                                                                   *)
(*                                                                         *)
(* Spec is one call at a time with every kind of argument; SpecSession is  *)
(* a process that makes several calls on the one Ajv instance and keeps    *)
(* what each call returned or threw.                                       *)
(***************************************************************************)
EXTENDS Integers, Sequences, FiniteSets, TLC

VARIABLES
    pc,            \* where the call stands: "idle", "validate", "annotate", "return", "done"
    args,          \* the arguments as the caller passed them (values at call time)
    locator,       \* the caller's path object, which validateSchema writes to
    schema,        \* validateSchema's local schema: the object handed to the engine
    heap,          \* the objects data, copy and schema, by reference
    dataMismatches, \* the reference _.cloneDeep returned
    errors,        \* validate.errors
    idx,           \* position of errors.forEach
    errorDescription, \* the annotation string of the error last processed
    issuesStyles,  \* the merged styles
    result,        \* what the call returned or threw
    ajv,           \* the module's Ajv instance
    stylesDefault, \* the object the module's issuesStylesDefault is bound to
    calls,         \* calls made so far
    history        \* the calls that are over, as the caller saw them

vars == <<pc, args, locator, schema, heap, dataMismatches, errors, idx,
          errorDescription, issuesStyles, result, ajv, stylesDefault, calls, history>>

(***************************************************************************)
(* Bounds of the model.                                                    *)
(***************************************************************************)
MaxErrors == 2
MaxCalls == 1

(***************************************************************************)
(* String primitives: split, join, replace, decimal conversion.            *)
(***************************************************************************)
EmptyStr == << >>

RECURSIVE SplitFrom(_, _, _)
SplitFrom(s, sep, cur) ==
    IF s = << >> THEN <<cur>>
    ELSE IF Head(s) = sep THEN <<cur>> \o SplitFrom(Tail(s), sep, EmptyStr)
    ELSE SplitFrom(Tail(s), sep, Append(cur, Head(s)))

\* String.prototype.split(sep): "" splits into [""].
Split(s, sep) == SplitFrom(s, sep, EmptyStr)

RECURSIVE Join(_, _)
\* Array.prototype.join(sep)
Join(segs, sep) ==
    IF segs = << >> THEN EmptyStr
    ELSE IF Len(segs) = 1 THEN segs[1]
    ELSE segs[1] \o <<sep>> \o Join(Tail(segs), sep)

\* String.prototype.replace(/^\//, '')
StripLeadingSlash(s) == IF s # << >> /\ Head(s) = "/" THEN Tail(s) ELSE s

\* String.prototype.replaceAll(from, to)
ReplaceAll(s, from, to) == [i \in 1..Len(s) |-> IF s[i] = from THEN to ELSE s[i]]

DigitToken == <<"0", "1", "2", "3", "4", "5", "6", "7", "8", "9">>

RECURSIVE NumToStr(_)
\* String(n) for a non-negative integer n
NumToStr(n) ==
    IF n < 10 THEN <<DigitToken[n + 1]>>
    ELSE NumToStr(n \div 10) \o <<DigitToken[(n % 10) + 1]>>

LowerToken(c) == IF c = "GET" THEN "get" ELSE IF c = "POST" THEN "post" ELSE c

\* String.prototype.toLowerCase()
ToLowerCase(s) == [i \in 1..Len(s) |-> LowerToken(s[i])]

IsPrefix(p, q) == Len(p) <= Len(q) /\ SubSeq(q, 1, Len(p)) = p

(***************************************************************************)
(* JavaScript values.                                                      *)
(***************************************************************************)
JsUndefined == [t |-> "undefined", n |-> 0, s |-> EmptyStr]
JsNull == [t |-> "null", n |-> 0, s |-> EmptyStr]
JsObject == [t |-> "object", n |-> 0, s |-> EmptyStr]
JsArray == [t |-> "array", n |-> 0, s |-> EmptyStr]
JsNum(k) == [t |-> "number", n |-> k, s |-> EmptyStr]
JsStr(str) == [t |-> "string", n |-> 0, s |-> str]

\* x == null
IsNullish(v) == v.t \in {"undefined", "null"}

\* the truthiness the operator || tests
Truthy(v) ==
    CASE v.t \in {"undefined", "null"} -> FALSE
      [] v.t = "number" -> v.n # 0
      [] v.t = "string" -> v.s # EmptyStr
      [] OTHER -> TRUE

\* `${v}` for the primitives the locator holds
ToStr(v) ==
    CASE v.t = "number" -> NumToStr(v.n)
      [] v.t = "string" -> v.s
      [] v.t = "null" -> <<"null">>
      [] OTHER -> <<"undefined">>

\* a tree holding one primitive
Leaf(v) == (<< >> :> v)

Undefined == Leaf(JsUndefined)

IsContainer(v) == v.t \in {"object", "array"}

\* the value held at path p of tree, itself a tree
Subtree(tree, p) ==
    LET under == {q \in DOMAIN tree : IsPrefix(p, q)}
    IN [r \in {SubSeq(q, Len(p) + 1, Len(q)) : q \in under} |-> tree[p \o r]]

ChildKeys(tree, p) ==
    {q[Len(p) + 1] : q \in {r \in DOMAIN tree : IsPrefix(p, r) /\ Len(r) = Len(p) + 1}}

(***************************************************************************)
(* lodash: _.get, _.set and _.cloneDeep as the code calls them, with a     *)
(* string path.                                                            *)
(***************************************************************************)
\* isKey(value, object): a string with no "." is one key; so is any string
\* that names an own property of object.
isKey(value, object) ==
    \/ \A i \in 1..Len(value) : value[i] # "."
    \/ IsContainer(object[<< >>]) /\ value \in ChildKeys(object, << >>)

\* stringToPath: for a bracket-free string, the "."-separated segments
stringToPath(string) == Split(string, ".")

castPath(value, object) ==
    IF isKey(value, object) THEN <<value>> ELSE stringToPath(value)

\* isIndex(value): /^(?:0|[1-9]\d*)$/
isIndex(value) ==
    /\ value # EmptyStr
    /\ \A i \in 1..Len(value) : \E d \in 1..Len(DigitToken) : value[i] = DigitToken[d]
    /\ Len(value) > 1 => value[1] # "0"

baseGet(object, path) ==
    IF path \in DOMAIN object THEN Subtree(object, path) ELSE Undefined

\* _.get(object, path, defaultValue)
get(object, path, defaultValue) ==
    LET res == IF IsNullish(object[<< >>]) THEN Undefined
               ELSE baseGet(object, castPath(path, object))
    IN IF res = Undefined THEN defaultValue ELSE res

\* baseSet: every missing or non-object step on the way becomes a new
\* array (next key is an index) or a new object; the last key is assigned.
baseSet(object, path, value) ==
    LET last == Len(path)
        step(i) == SubSeq(path, 1, i)
        kept == {q \in DOMAIN object : ~IsPrefix(path, q)}
        made == {step(i) : i \in 1..(last - 1)}
        container(i) ==
            IF step(i) \in DOMAIN object /\ IsContainer(object[step(i)])
            THEN object[step(i)]
            ELSE IF isIndex(path[i + 1]) THEN JsArray ELSE JsObject
    IN [q \in kept \cup made \cup {path} |->
            IF q = path THEN value
            ELSE IF q \in made THEN container(Len(q))
            ELSE object[q]]

\* _.set(object, path, value), value a primitive
set(object, path, value) ==
    IF ~IsContainer(object[<< >>]) THEN object
    ELSE baseSet(object, castPath(path, object), value)

(***************************************************************************)
(* JSON.stringify.  Object members are written in KeyOrder, which is the   *)
(* order the data values of the model are built in.                        *)
(***************************************************************************)
KeyOrder == << <<"0">>, <<"a">>, <<"b">>, <<"a", ".", "b">> >>

RECURSIVE Stringify(_)
Stringify(tree) ==
    LET v == tree[<< >>]
        keys == SelectSeq(KeyOrder, LAMBDA k : k \in ChildKeys(tree, << >>))
        member(k) == <<"\"">> \o k \o <<"\"", ":">> \o Stringify(Subtree(tree, <<k>>))
        element(k) == Stringify(Subtree(tree, <<k>>))
    IN CASE v.t = "number" -> NumToStr(v.n)
         [] v.t = "string" -> <<"\"">> \o v.s \o <<"\"">>
         [] v.t = "object" ->
                <<"{">> \o Join([i \in 1..Len(keys) |-> member(keys[i])], ",") \o <<"}">>
         [] v.t = "array" ->
                <<"[">> \o Join([i \in 1..Len(keys) |-> element(keys[i])], ",") \o <<"]">>
         [] OTHER -> <<"null">>

\* String(JSON.stringify(value)): JSON.stringify(undefined) is undefined
StringOfStringify(value) ==
    IF value = Undefined THEN <<"undefined">> ELSE Stringify(value)

(***************************************************************************)
(* Object literals of the model.                                           *)
(***************************************************************************)
\* {...target, ...source}: the own properties of source over those of target
Spread(target, source) ==
    IF ~IsContainer(source[<< >>]) THEN target
    ELSE LET ks == ChildKeys(source, << >>)
             kept == {q \in DOMAIN target : q = << >> \/ q[1] \notin ks}
             added == DOMAIN source \ {<< >>}
         IN [q \in kept \cup added |-> IF q \in added THEN source[q] ELSE target[q]]

\* an object literal, from its members <<key, value>>
Obj(members) ==
    [q \in {<< >>} \cup UNION {{<<m[1]>> \o r : r \in DOMAIN m[2]} : m \in members} |->
        IF q = << >> THEN JsObject
        ELSE (CHOOSE m \in members : m[1] = q[1])[2][Tail(q)]]

\* an array literal, from its elements <<index, value>>
Arr(elements) == [Obj(elements) EXCEPT ![<< >>] = JsArray]

EmptyObject == Leaf(JsObject)

StrLeaf(token) == Leaf(JsStr(<<token>>))

(***************************************************************************)
(* The inputs of a call.                                                   *)
(***************************************************************************)
\* the property names of the data values
PropertyNames == {<<"a">>, <<"b">>, <<"a", ".", "b">>}

DataNumber == Leaf(JsNum(5))
\* {a: "x", b: 1}
DataFlat == Obj({<< <<"a">>, StrLeaf("x") >>, << <<"b">>, Leaf(JsNum(1)) >>})
\* {a: {b: 1}}
DataNested == Obj({<< <<"a">>, Obj({<< <<"b">>, Leaf(JsNum(1)) >>}) >>})
\* {a: [1]}
DataList == Obj({<< <<"a">>, Arr({<< <<"0">>, Leaf(JsNum(1)) >>}) >>})

DataSet == {DataNumber, DataFlat, DataNested, DataList}

\* {type: name}
TypeSchema(name) == Obj({<< <<"type">>, StrLeaf(name) >>})

SchemaAbsent == Leaf(JsNull)
SchemaPlain == TypeSchema("object")
\* a schema the engine cannot compile
SchemaMalformed == TypeSchema("no-such-type")

EndpointUsers == <<"/", "users">>
EndpointDotted == <<"/", "users", ".", "json">>

Responses(members) == Obj({<< <<"responses">>, Obj(members) >>})

\* a response schema that has an $id and a `definitions` of its own
BodyWithId ==
    Obj({<< <<"$id">>, StrLeaf("own") >>,
         << <<"type">>, StrLeaf("object") >>,
         << <<"definitions">>, Obj({<< <<"Local">>, TypeSchema("string") >>}) >>})

\* a Swagger 2 document
SchemaSwagger ==
    LET response(body) == Obj({<< <<"schema">>, body >>})
    IN Obj({
        << <<"swagger">>, StrLeaf("2.0") >>,
        << <<"paths">>, Obj({
            << EndpointUsers, Obj({
                << <<"get">>, Responses({
                    << NumToStr(200), response(TypeSchema("object")) >>,
                    << NumToStr(201), Leaf(JsNull) >>,
                    << NumToStr(202), EmptyObject >>,
                    << <<"default">>, response(TypeSchema("array")) >>}) >>,
                << <<"post">>, Responses({
                    << NumToStr(200), response(TypeSchema("object")) >>,
                    << NumToStr(203), response(BodyWithId) >>}) >>}) >>,
            << EndpointDotted, Obj({
                << <<"get">>, Responses({
                    << NumToStr(200), response(TypeSchema("object")) >>}) >>}) >>}) >>,
        << <<"definitions">>, Obj({<< <<"User">>, TypeSchema("object") >>}) >>})

\* an OpenAPI 3 document; it has no path "/users.json", and its path "/users"
\* has a member "json" next to its methods
SchemaOpenApi ==
    LET response(body) ==
            Obj({<< <<"content">>,
                    Obj({<< <<"application/json">>, Obj({<< <<"schema">>, body >>}) >>}) >>})
    IN Obj({
        << <<"openapi">>, StrLeaf("3.0.1") >>,
        << <<"paths">>, Obj({
            << EndpointUsers, Obj({
                << <<"get">>, Responses({
                    << NumToStr(200), response(TypeSchema("object")) >>,
                    << NumToStr(202), EmptyObject >>,
                    << <<"default">>, EmptyObject >>}) >>,
                << <<"json">>, Obj({
                    << <<"get">>, Responses({
                        << NumToStr(200), response(TypeSchema("string")) >>}) >>}) >>}) >>}) >>,
        << <<"components">>,
           Obj({<< <<"schemas">>, Obj({<< <<"User">>, TypeSchema("object") >>}) >>}) >>})

\* a plain schema that names itself
SchemaWithId == Obj({<< <<"$id">>, StrLeaf("own") >>, << <<"type">>, StrLeaf("object") >>})

SchemaSet == {SchemaAbsent, SchemaPlain, SchemaMalformed, SchemaSwagger, SchemaOpenApi}

\* the path object: absent, or {endpoint, method, status} with fields left out
NoLocator ==
    [present |-> FALSE, endpoint |-> JsUndefined, method |-> JsUndefined,
     status |-> JsUndefined]
Locator(e, m, st) == [present |-> TRUE, endpoint |-> e, method |-> m, status |-> st]

LocatorSet ==
    {NoLocator,
     Locator(JsUndefined, JsUndefined, JsUndefined),
     Locator(JsNull, JsStr(<<"GET">>), JsNum(200)),
     Locator(JsStr(EndpointUsers), JsUndefined, JsUndefined),
     Locator(JsStr(EndpointUsers), JsStr(<<"GET">>), JsNum(201)),
     Locator(JsStr(EndpointUsers), JsStr(<<"GET">>), JsNum(202)),
     Locator(JsStr(EndpointUsers), JsStr(<<"GET">>), JsNum(404)),
     Locator(JsStr(EndpointUsers), JsStr(<<"post">>), JsNum(404)),
     Locator(JsStr(EndpointUsers), JsStr(<<"post">>), JsNum(0)),
     Locator(JsStr(EndpointUsers), JsStr(<<"POST">>), JsNum(203)),
     Locator(JsStr(EndpointDotted), JsStr(<<"GET">>), JsNum(200))}

\* the issuesStyles argument; JsUndefined is a field the caller left out
Styles(e, m) == [iconPropertyError |-> e, iconPropertyMissing |-> m]
StylesSet ==
    {Styles(JsUndefined, JsUndefined),
     Styles(JsUndefined, JsStr(<<"red-circle">>)),
     Styles(JsStr(<<"flag">>), JsStr(EmptyStr))}

\* what Math.random().toString(36).substring(10) can return
RandomTokens == {<<"r1">>, <<"r2">>}

\* The calls of the model: every data value against a plain schema, every
\* schema with every path object on one data value, and the absent schema
\* with everything.
Call(data, doc, path, styles) ==
    [data |-> data, schema |-> doc, path |-> path, issuesStyles |-> styles]

CallSet ==
    {Call(d, SchemaPlain, NoLocator, st) : d \in DataSet, st \in StylesSet}
    \cup {Call(DataFlat, doc, path, Styles(JsUndefined, JsUndefined)) :
            doc \in SchemaSet, path \in LocatorSet}
    \cup {Call(d[1], SchemaAbsent, d[2], d[3]) : d \in DataSet \X LocatorSet \X StylesSet}

\* The calls of a session, in which one process makes several calls: one data
\* value; a plain schema with every kind of path object; a plain schema with
\* its own $id; a specification document with a full path object and with
\* one that lacks its endpoint; no schema.  The caller passes the schema
\* object it holds, or (rebuilt) a deep-equal one made for the call.
\* [1]
DataArray == Arr({<< <<"0">>, Leaf(JsNum(1)) >>})

SessionData == DataArray

SessionCall(doc, path, rebuilt) ==
    [call |-> Call(SessionData, doc, path, Styles(JsUndefined, JsUndefined)),
     rebuilt |-> rebuilt]

SessionCallSet ==
    {SessionCall(SchemaPlain, path, FALSE) :
        path \in {NoLocator,
                  Locator(JsUndefined, JsUndefined, JsUndefined),
                  Locator(JsStr(EndpointUsers), JsUndefined, JsUndefined),
                  Locator(JsStr(EndpointUsers), JsStr(<<"GET">>), JsNum(200))}}
    \cup {SessionCall(doc, NoLocator, rebuilt) :
            doc \in {SchemaPlain, SchemaWithId}, rebuilt \in BOOLEAN}
    \cup {SessionCall(SchemaAbsent, NoLocator, FALSE)}
    \cup {SessionCall(SchemaSwagger, path, FALSE) :
            path \in {Locator(JsStr(EndpointUsers), JsStr(<<"GET">>), JsNum(200)),
                      Locator(JsUndefined, JsStr(<<"GET">>), JsNum(200))}}

(***************************************************************************)
(* The engine's report on a data value: null when it is valid, else a      *)
(* list of errors.  An error points at a location of the data (a JSON      *)
(* pointer); a `required` error points at an object (not an array) and     *)
(* names a property that object lacks.  With allErrors the list may hold   *)
(* errors at any locations, nested ones included.                          *)
(***************************************************************************)
RECURSIVE Pointer(_)
Pointer(p) == IF p = << >> THEN EmptyStr ELSE <<"/">> \o Head(p) \o Pointer(Tail(p))

TypeError(data, p) ==
    [instancePath |-> Pointer(p), keyword |-> "type",
     message |-> IF data[p].t = "string" THEN <<"must be number">> ELSE <<"must be string">>,
     params |-> [missingProperty |-> EmptyStr]]

RequiredError(p, k) ==
    [instancePath |-> Pointer(p), keyword |-> "required",
     message |-> <<"must have required property '">> \o k \o <<"'">>,
     params |-> [missingProperty |-> k]]

EngineErrors(data) ==
    {TypeError(data, p) : p \in DOMAIN data}
    \cup {RequiredError(m[1], m[2]) :
            m \in {n \in (DOMAIN data) \X PropertyNames :
                     data[n[1]].t = "object" /\ n[2] \notin ChildKeys(data, n[1])}}

\* validate.errors: not set before the validator has run, then null or a list
NotValidated == [ran |-> FALSE, null |-> TRUE, list |-> << >>]
NoErrors == [ran |-> TRUE, null |-> TRUE, list |-> << >>]
ErrorList(l) == [ran |-> TRUE, null |-> FALSE, list |-> l]

EngineReports(data) ==
    {NoErrors} \cup
    {ErrorList(l) : l \in UNION {[1..n -> EngineErrors(data)] : n \in 1..MaxErrors}}

(***************************************************************************)
(* Messages and icons.                                                     *)
(***************************************************************************)
issuesStylesDefault ==
    Styles(JsStr(<<"warning-sign">>), JsStr(<<"cross-mark">>))

errorInvalidSchema == <<"You must provide a valid schema!">>
errorInvalidSchemaParameters ==
    <<"You must provide valid schema parameters (missing 'endpoint', 'method' or 'status' params)!">>

NoResult ==
    [kind |-> "none", error |-> "", message |-> EmptyStr, errors |-> NotValidated,
     dataMismatches |-> Undefined, issuesStyles |-> issuesStylesDefault]

\* throw new Error(message); error is the name section 7 of the spec gives it
Thrown(error, message) == [NoResult EXCEPT !.kind = "thrown", !.error = error, !.message = message]

\* object.key
Prop(object, key) == IF <<key>> \in DOMAIN object THEN Subtree(object, <<key>>) ELSE Undefined

(***************************************************************************)
(* The Ajv instance: the schema objects it has cached (by identity) and    *)
(* refs, the object registered under each id ("" for a schema without      *)
(* one).  A schema object is the one the caller holds (fresh = 0), one the *)
(* caller built for this call (fresh < 0) or the one the Resolver built in *)
(* this call (fresh = the call's number).                                  *)
(***************************************************************************)
SchemaObject(fresh, doc) == [fresh |-> fresh, doc |-> doc]

JSONTypes == {"object", "array", "string", "number", "integer", "boolean", "null"}

\* the schema passes the engine's meta-schema check
Compilable(doc) ==
    LET type == Prop(doc, <<"type">>)[<< >>]
    IN type.t = "undefined" \/ (type.t = "string" /\ \E n \in JSONTypes : type.s = <<n>>)

\* schema.$id when it is a string, else ""
SchemaId(doc) ==
    LET id == Prop(doc, <<"$id">>)[<< >>] IN IF id.t = "string" THEN id.s ELSE EmptyStr

\* ajv.compile(schema): a cached object is not added again; a new one is
\* cached, then its id (unless "") must be unused, then it is registered
\* under its id, taking the place of what "" held, then checked.
compile(engine, object) ==
    IF object \in engine.cache
    THEN [ajv |-> engine, throws |-> ~Compilable(object.doc)]
    ELSE LET id == SchemaId(object.doc)
             cached == [engine EXCEPT !.cache = @ \cup {object}]
         IN IF id # EmptyStr /\ id \in DOMAIN engine.refs
            THEN [ajv |-> cached, throws |-> TRUE]
            ELSE [ajv |-> [cached EXCEPT !.refs = (id :> object) @@ @],
                  throws |-> ~Compilable(object.doc)]

(***************************************************************************)
(* The Resolver.                                                           *)
(***************************************************************************)
_getSchemaFromSpecificationDoc(doc, path, random) ==
    IF IsNullish(path.endpoint) \/ IsNullish(path.method) \/ IsNullish(path.status)
    THEN [thrown |-> TRUE, error |-> "InvalidPathParameters",
          message |-> errorInvalidSchemaParameters, schema |-> Undefined]
    ELSE
    LET endpoint == ToStr(path.endpoint)
        method == ToLowerCase(path.method.s)
        status == ToStr(path.status)
        id == random \o <<":">> \o endpoint \o <<":">> \o method \o <<":">> \o status
        isSwagger == Truthy(Prop(doc, <<"swagger">>)[<< >>])
        schemaProperty ==
            IF isSwagger THEN <<"schema">>
            ELSE <<"content", ".", "application/json", ".", "schema">>
        componentsDefinitions ==
            IF isSwagger
            THEN Obj({<< <<"definitions">>, Prop(doc, <<"definitions">>) >>})
            ELSE Obj({<< <<"components">>, Prop(doc, <<"components">>) >>})
        pathStatus ==
            <<"paths", ".">> \o endpoint \o <<".">> \o method
                \o <<".", "responses", ".">> \o status
        pathDefault ==
            <<"paths", ".">> \o endpoint \o <<".">> \o method
                \o <<".", "responses", ".", "default">>
        responseDef == get(doc, pathStatus, get(doc, pathDefault, Undefined))
        schemaDef == get(responseDef, schemaProperty, Undefined)
    IN IF responseDef = Undefined
       THEN [thrown |-> TRUE, error |-> "ResponseDefinitionNotFound",
             message |-> <<"No response definition found for path '">> \o pathStatus
                            \o <<"' or ">> \o pathDefault \o <<"'!">>,
             schema |-> Undefined]
       ELSE IF schemaDef = Undefined
       THEN [thrown |-> TRUE, error |-> "SchemaDefinitionNotFound",
             message |-> <<"No schema definition found for path '">> \o pathStatus
                            \o <<".">> \o schemaProperty \o <<"'!">>,
             schema |-> Undefined]
       ELSE [thrown |-> FALSE, error |-> "", message |-> EmptyStr,
             schema |-> Spread(Spread(Obj({<< <<"$id">>, Leaf(JsStr(id)) >>}), schemaDef),
                               componentsDefinitions)]

(***************************************************************************)
(* The Orchestrator, lines 391-411: the checks, the defaulting of the      *)
(* path object, the resolution and the merge of the styles.                *)
(***************************************************************************)
\* path.method = path.method || 'GET'; path.status = path.status || 200
DefaultedPath(path) ==
    [path EXCEPT !.method = IF Truthy(@) THEN @ ELSE JsStr(<<"GET">>),
                 !.status = IF Truthy(@) THEN @ ELSE JsNum(200)]

\* every schema object taken for a specification document
IsSpecificationDoc_anyObject(doc) == IsContainer(doc[<< >>])

\* schema.swagger || schema.openapi
IsSpecificationDoc(doc) ==
    Truthy(Prop(doc, <<"swagger">>)[<< >>]) \/ Truthy(Prop(doc, <<"openapi">>)[<< >>])

\* the caller's object in place of the default, whatever fields it holds
MergedStyles_callerOnly(styles) ==
    IF \A f \in DOMAIN styles : styles[f] = JsUndefined THEN stylesDefault ELSE styles

\* { ...issuesStylesDefault, ...issuesStyles }
MergedStyles(styles) ==
    [f \in DOMAIN stylesDefault |->
        IF styles[f] # JsUndefined THEN styles[f] ELSE stylesDefault[f]]

\* schema === undefined, which lets null through
SchemaMissing_undefinedOnly(doc) == doc[<< >>].t = "undefined"

\* schema == null comes first
SchemaMissing(doc) == IsNullish(doc[<< >>])

NoArgs == Call(Undefined, Undefined, NoLocator, Styles(JsUndefined, JsUndefined))
NoHeap == [data |-> Undefined, copy |-> Undefined, schema |-> Undefined]

Init ==
    /\ pc = "idle"
    /\ args = NoArgs
    /\ locator = NoLocator
    /\ schema = SchemaObject(0, Undefined)
    /\ heap = NoHeap
    /\ dataMismatches = "copy"
    /\ errors = NotValidated
    /\ idx = 1
    /\ errorDescription = EmptyStr
    /\ issuesStyles = issuesStylesDefault
    /\ result = NoResult
    /\ ajv = [cache |-> {}, refs |-> << >>]
    /\ stylesDefault = issuesStylesDefault
    /\ calls = 0
    /\ history = << >>

\* rebuilt: the caller made the schema object anew for this call
validateSchema(data, doc, path, styles, random, rebuilt) ==
    LET given == SchemaObject(IF rebuilt THEN 0 - (calls + 1) ELSE 0, doc) IN
    /\ pc = "idle"
    /\ calls' = calls + 1
    /\ args' = Call(data, doc, path, styles)
    /\ heap' = [data |-> data, copy |-> Undefined, schema |-> doc]
    /\ dataMismatches' = "copy"
    /\ errors' = NotValidated
    /\ idx' = 1
    /\ UNCHANGED <<ajv, errorDescription, stylesDefault, history>>
    /\ IF SchemaMissing(doc)
       THEN /\ result' = Thrown("MissingSchema", errorInvalidSchema)
            /\ locator' = path
            /\ schema' = given
            /\ issuesStyles' = issuesStylesDefault
            /\ pc' = "done"
       ELSE LET defaulted == IF path.present THEN DefaultedPath(path) ELSE path
                resolved == _getSchemaFromSpecificationDoc(doc, defaulted, random)
            IN /\ locator' = defaulted
               /\ IF path.present /\ IsSpecificationDoc(doc)
                  THEN IF resolved.thrown
                       THEN /\ result' = Thrown(resolved.error, resolved.message)
                            /\ schema' = given
                            /\ issuesStyles' = issuesStylesDefault
                            /\ pc' = "done"
                       ELSE /\ result' = NoResult
                            /\ schema' = SchemaObject(calls + 1, resolved.schema)
                            /\ issuesStyles' = MergedStyles(styles)
                            /\ pc' = "validate"
                  ELSE /\ result' = NoResult
                       /\ schema' = given
                       /\ issuesStyles' = MergedStyles(styles)
                       /\ pc' = "validate"

(***************************************************************************)
(* The Annotator.                                                          *)
(***************************************************************************)
\* no copy at all: the annotations go to the caller's object
cloneDeep_alias(ref) == ref

\* _.cloneDeep(data): a new object
cloneDeep(ref) == "copy"

\* what the verdict of a validator depends on: the schema but for its $id,
\* and the data
EngineInput(doc, data) ==
    <<[q \in DOMAIN doc \ {<< <<"$id">> >>} |-> doc[q]], data>>

\* validate(data) is a function of the schema and the data: a verdict given
\* earlier in the process is given again
SameVerdict(report) ==
    \A i \in DOMAIN history :
        (/\ history[i].errors.ran
         /\ EngineInput(history[i].schema.doc, history[i].args.data)
                = EngineInput(schema.doc, heap.data)) =>
            report = history[i].errors

\* lines 563-572: compile, validate, clone
_validateSchemaAJV ==
    /\ pc = "validate"
    /\ LET compiled == compile(ajv, schema)
       IN /\ ajv' = compiled.ajv
          /\ IF compiled.throws
             THEN /\ result' = Thrown("SchemaCompilationError", <<"schema is invalid">>)
                  /\ pc' = "done"
                  /\ UNCHANGED <<errors, heap, dataMismatches>>
             ELSE \E report \in EngineReports(heap.data) :
                    /\ SameVerdict(report)
                    /\ errors' = report
                    /\ dataMismatches' = cloneDeep("data")
                    /\ heap' = [heap EXCEPT ![cloneDeep("data")] = heap.data]
                    /\ pc' = IF report.null THEN "return" ELSE "annotate"
                    /\ UNCHANGED result
    /\ idx' = 1
    /\ UNCHANGED <<args, locator, schema, errorDescription, issuesStyles,
                   stylesDefault, calls, history>>

\* lines 576-577: "/0/name" => "0.name"
InstancePath(error) == Join(Split(StripLeadingSlash(error.instancePath), "/"), ".")

\* line 584
RequiredPath(instancePath, missingProperty) ==
    IF instancePath = EmptyStr THEN missingProperty
    ELSE instancePath \o <<".">> \o missingProperty

\* line 580: the value the annotation quotes
ErrorValue(error) == get(heap.data, InstancePath(error), Undefined)

\* lines 586 and 589
ErrorDescription(error, value) ==
    IF error.keyword = "required"
    THEN ToStr(issuesStyles.iconPropertyMissing) \o <<" ", "Missing property '">>
            \o error.params.missingProperty \o <<"'">>
    ELSE ToStr(issuesStyles.iconPropertyError) \o <<" ">>
            \o ReplaceAll(StringOfStringify(value), "\"", "'") \o <<" ">> \o error.message

\* the path handed to _.set
WritePath(error) ==
    IF error.keyword = "required"
    THEN RequiredPath(InstancePath(error), error.params.missingProperty)
    ELSE InstancePath(error)

\* lines 575-592: one turn of errors.forEach
annotateError ==
    /\ pc = "annotate"
    /\ idx <= Len(errors.list)
    /\ LET error == errors.list[idx]
           description == ErrorDescription(error, ErrorValue(error))
       IN /\ errorDescription' = description
          /\ heap' = [heap EXCEPT ![dataMismatches] =
                        set(@, WritePath(error), JsStr(description))]
    /\ idx' = idx + 1
    /\ pc' = IF idx = Len(errors.list) THEN "return" ELSE "annotate"
    /\ UNCHANGED <<args, locator, schema, dataMismatches, errors, issuesStyles,
                   result, ajv, stylesDefault, calls, history>>

\* a return that turns "no errors" into an empty list
Outcome_emptyList(errs, mismatches, styles) ==
    [NoResult EXCEPT !.kind = "returned", !.errors = [errs EXCEPT !.null = FALSE],
                     !.dataMismatches = mismatches, !.issuesStyles = styles]

\* a return that hands the errors back in another order
Outcome_reversed(errs, mismatches, styles) ==
    [NoResult EXCEPT !.kind = "returned",
                     !.errors = [errs EXCEPT !.list =
                                    [i \in 1..Len(@) |-> @[Len(@) + 1 - i]]],
                     !.dataMismatches = mismatches, !.issuesStyles = styles]

\* { errors, dataMismatches, issuesStyles }
Outcome(errs, mismatches, styles) ==
    [NoResult EXCEPT !.kind = "returned", !.errors = errs,
                     !.dataMismatches = mismatches, !.issuesStyles = styles]

\* lines 595 and 415
return ==
    /\ pc = "return"
    /\ result' = Outcome(errors, heap[dataMismatches], issuesStyles)
    /\ pc' = "done"
    /\ UNCHANGED <<args, locator, schema, heap, dataMismatches, errors, idx,
                   errorDescription, issuesStyles, ajv, stylesDefault, calls, history>>

\* the call is over: its arguments and locals are gone, the Ajv instance stays
callEnds ==
    /\ pc = "done"
    /\ pc' = "idle"
    /\ args' = NoArgs
    /\ locator' = NoLocator
    /\ schema' = SchemaObject(0, Undefined)
    /\ heap' = NoHeap
    /\ dataMismatches' = "copy"
    /\ errors' = NotValidated
    /\ idx' = 1
    /\ errorDescription' = EmptyStr
    /\ issuesStyles' = issuesStylesDefault
    /\ result' = NoResult
    /\ UNCHANGED <<ajv, stylesDefault, calls>>

Next ==
    \/ /\ calls < MaxCalls
       /\ \E call \in CallSet, random \in RandomTokens :
            validateSchema(call.data, call.schema, call.path, call.issuesStyles,
                           random, FALSE)
    \/ _validateSchemaAJV
    \/ annotateError
    \/ return
    \/ callEnds /\ UNCHANGED history

Spec == Init /\ [][Next]_vars

(***************************************************************************)
(* A session: several calls in one process, each one kept in history when  *)
(* it is over.                                                             *)
(***************************************************************************)
SessionCalls == MaxCalls + 1

\* what the caller holds when a call is over
Completed ==
    [args |-> args, locator |-> locator, schema |-> schema, errors |-> errors,
     result |-> result]

NextSession ==
    \/ /\ calls < SessionCalls
       /\ \E c \in SessionCallSet, random \in RandomTokens :
            validateSchema(c.call.data, c.call.schema, c.call.path, c.call.issuesStyles,
                           random, c.rebuilt)
    \/ _validateSchemaAJV
    \/ annotateError
    \/ return
    \/ callEnds /\ history' = Append(history, Completed)

SpecSession == Init /\ [][NextSession]_vars

(***************************************************************************)
(* What the claims speak of.                                               *)
(***************************************************************************)
\* the location a JSON pointer names (RFC 6901): "" is the root
PointerPath(pointer) == IF pointer = EmptyStr THEN << >> ELSE Split(Tail(pointer), "/")

\* the location an error flags
FlaggedLocation(error) ==
    IF error.keyword = "required"
    THEN Append(PointerPath(error.instancePath), error.params.missingProperty)
    ELSE PointerPath(error.instancePath)

\* the value tree holds at a location, Undefined when it has none there
ValueAt(tree, location) ==
    IF location \in DOMAIN tree THEN Subtree(tree, location) ELSE Undefined

\* the engine ran and found the data valid / invalid
ReportedValid == errors.ran /\ errors.null
ReportedInvalid == errors.ran /\ ~errors.null

Returned == pc = "done" /\ result.kind = "returned"
Threw(error) == pc = "done" /\ result.kind = "thrown" /\ result.error = error

\* the error errors.forEach has just processed
Processed == pc \in {"annotate", "return"} /\ idx > 1
LastError == errors.list[idx - 1]

C3_DataAndSchemaUnchanged ==
    /\ heap.data = args.data
    /\ heap.schema = args.schema
    /\ errors.ran => dataMismatches # "data"

C3_Witness ==
    /\ Returned /\ ReportedInvalid
    /\ heap[dataMismatches] # heap.data
    /\ heap.data = args.data

\* C4: in the returned dataMismatches every location that no error flags
\* holds what the data holds there, and no location is new but flagged ones.
C4_UnflaggedLocationsUntouched ==
    (Returned /\ ReportedInvalid) =>
        LET flagged == {FlaggedLocation(errors.list[i]) : i \in 1..Len(errors.list)}
        IN \A q \in DOMAIN result.dataMismatches :
                q \notin flagged =>
                    /\ q \in DOMAIN args.data
                    /\ result.dataMismatches[q] = args.data[q]

\* C5: in the returned dataMismatches the flagged location of every error
\* of the list holds an annotation string.
C5_EveryFlaggedLocationAnnotated ==
    (Returned /\ ReportedInvalid) =>
        \A i \in 1..Len(errors.list) :
            LET at == ValueAt(result.dataMismatches, FlaggedLocation(errors.list[i]))
            IN /\ at[<< >>].t = "string"
               /\ at # ValueAt(args.data, FlaggedLocation(errors.list[i]))

\* C6: a `required` error is annotated at its instance path with the missing
\* property appended, not at the parent, with the missing-property icon and
\* the fixed message; the data itself still lacks the property.
C6_RequiredAnnotatedAtMissingProperty ==
    (Processed /\ LastError.keyword = "required") =>
        LET parent == PointerPath(LastError.instancePath)
            missingProperty == LastError.params.missingProperty
            expected == ToStr(issuesStyles.iconPropertyMissing)
                            \o <<" ", "Missing property '">> \o missingProperty \o <<"'">>
        IN /\ errorDescription = expected
           /\ ValueAt(heap[dataMismatches], Append(parent, missingProperty))
                = Leaf(JsStr(expected))
           /\ IsContainer(ValueAt(heap[dataMismatches], parent)[<< >>])
           /\ Append(parent, missingProperty) \notin DOMAIN heap.data

\* C7: an error that is not `required` is annotated, at every instance path
\* (the root included), with: the error icon, the single-quoted rendering of
\* what the original data holds at the instance path, the engine's message.
C7_ErrorAnnotationQuotesOriginalValue ==
    (Processed /\ LastError.keyword # "required") =>
        errorDescription =
            ToStr(issuesStyles.iconPropertyError) \o <<" ">>
                \o ReplaceAll(StringOfStringify(
                        ValueAt(args.data, PointerPath(LastError.instancePath))), "\"", "'")
                \o <<" ">> \o LastError.message

\* the Resolver runs: a specification document and a path object with an endpoint
ResolverRuns ==
    /\ pc # "idle"
    /\ ~IsNullish(args.schema[<< >>])
    /\ args.path.present
    /\ IsSpecificationDoc(args.schema)
    /\ ~IsNullish(args.path.endpoint)

\* paths.<endpoint>.<method>.responses.<status>, key by key
ResponseLocation(status) ==
    << <<"paths">>, ToStr(locator.endpoint), ToLowerCase(locator.method.s),
       <<"responses">>, status >>

SchemaLocation ==
    IF Truthy(Prop(args.schema, <<"swagger">>)[<< >>])
    THEN << <<"schema">> >>
    ELSE << <<"content">>, <<"application/json">>, <<"schema">> >>

\* C8: the response at the exact status is used whenever it is defined (null
\* and {} included); else the default response when that is defined; else the
\* call throws ResponseDefinitionNotFound, naming both paths.
C8_ResponseSelectionTriState ==
    ResolverRuns =>
        LET atStatus == ValueAt(args.schema, ResponseLocation(ToStr(locator.status)))
            atDefault == ValueAt(args.schema, ResponseLocation(<<"default">>))
            used == IF atStatus # Undefined THEN atStatus ELSE atDefault
            body == ValueAt(used, SchemaLocation)
        IN IF used = Undefined
           THEN /\ Threw("ResponseDefinitionNotFound")
                /\ result.message =
                        <<"No response definition found for path '">>
                            \o Join(ResponseLocation(ToStr(locator.status)), ".")
                            \o <<"' or ">> \o Join(ResponseLocation(<<"default">>), ".")
                            \o <<"'!">>
           ELSE IF body = Undefined
           THEN Threw("SchemaDefinitionNotFound")
           ELSE /\ ~Threw("ResponseDefinitionNotFound")
                /\ ~Threw("SchemaDefinitionNotFound")
                /\ Prop(schema.doc, <<"type">>) = Prop(body, <<"type">>)

\* C9: with a specification document, a call whose path object is absent or
\* has no endpoint throws InvalidPathParameters before anything else is done.
C9_UnresolvedLocatorThrows ==
    (/\ pc # "idle"
     /\ ~IsNullish(args.schema[<< >>])
     /\ IsSpecificationDoc(args.schema)
     /\ (~args.path.present \/ IsNullish(args.path.endpoint))) =>
        /\ Threw("InvalidPathParameters")
        /\ ~errors.ran

\* C10: with a null schema the call throws MissingSchema at once: the path
\* object is not defaulted, nothing is resolved, the engine does not run.
C10_MissingSchemaComesFirst ==
    (pc # "idle" /\ IsNullish(args.schema[<< >>])) =>
        /\ Threw("MissingSchema")
        /\ result.message = errorInvalidSchema
        /\ locator = args.path
        /\ ~errors.ran
        /\ heap.copy = Undefined

C10_Witness ==
    /\ Threw("MissingSchema")
    /\ IsNullish(args.schema[<< >>])
    /\ args.path.present /\ args.path.method = JsUndefined
    /\ locator.method = JsUndefined
    /\ IsContainer(args.data[<< >>])

\* C11: with a non-null schema and a path object, whether the call returns
\* or throws, the path object ends with the caller's endpoint, the caller's
\* method when one was supplied (as written, not lowercased) and "GET"
\* otherwise, the caller's status when one was supplied (any integer) and 200
\* otherwise.
C11_LocatorOnlyDefaulted ==
    (pc # "idle" /\ ~IsNullish(args.schema[<< >>]) /\ args.path.present) =>
        /\ locator.present
        /\ locator.endpoint = args.path.endpoint
        /\ locator.method =
                IF args.path.method # JsUndefined THEN args.path.method ELSE JsStr(<<"GET">>)
        /\ locator.status =
                IF args.path.status # JsUndefined THEN args.path.status ELSE JsNum(200)

\* the icon an error's annotation starts with
IconOf(styles, error) ==
    IF error.keyword = "required" THEN styles.iconPropertyMissing ELSE styles.iconPropertyError

\* C12: the styles of a call are, field by field, the caller's value when the
\* caller supplied the field and the built-in default otherwise; they are what
\* the call returns as issuesStyles and the icons every annotation of the call
\* starts with; the built-in default is never changed.
C12_StylesMergedFieldByField ==
    LET expected ==
            [f \in {"iconPropertyError", "iconPropertyMissing"} |->
                IF args.issuesStyles[f] # JsUndefined THEN args.issuesStyles[f]
                ELSE issuesStylesDefault[f]]
    IN /\ stylesDefault = issuesStylesDefault
       /\ (pc \in {"validate", "annotate", "return"}) => issuesStyles = expected
       /\ Returned => result.issuesStyles = expected
       /\ Processed =>
            /\ IsPrefix(ToStr(IconOf(expected, LastError)) \o <<" ">>, errorDescription)
            /\ IsContainer(args.data[<< >>]) =>
                    \E q \in DOMAIN heap[dataMismatches] :
                        heap[dataMismatches][q] = JsStr(errorDescription)

C12_Witness ==
    /\ Returned /\ ReportedInvalid
    /\ args.issuesStyles = Styles(JsUndefined, JsStr(<<"red-circle">>))
    /\ result.issuesStyles = Styles(JsStr(<<"warning-sign">>), JsStr(<<"red-circle">>))
    /\ Len(errors.list) = 2
    /\ errors.list[1].keyword = "required" /\ errors.list[2].keyword = "type"
    /\ \E q \in DOMAIN result.dataMismatches :
            /\ result.dataMismatches[q].t = "string"
            /\ IsPrefix(<<"red-circle">>, result.dataMismatches[q].s)
    /\ \E q \in DOMAIN result.dataMismatches :
            /\ result.dataMismatches[q].t = "string"
            /\ IsPrefix(<<"warning-sign">>, result.dataMismatches[q].s)

\* the call in progress has a plain schema: not null, no version marker
PlainSchemaCall ==
    /\ pc # "idle"
    /\ ~IsNullish(args.schema[<< >>])
    /\ Prop(args.schema, <<"swagger">>) = Undefined
    /\ Prop(args.schema, <<"openapi">>) = Undefined

\* an earlier call of the session with the same data, schema object and styles
SameButLocator(h) ==
    /\ h.args.data = args.data
    /\ h.schema = schema
    /\ h.args.issuesStyles = args.issuesStyles

\* C13: with a plain schema the path object is ignored: the engine is handed
\* the caller's schema object, unchanged; the Resolver does not run, so none of
\* its three errors is thrown; and the errors and dataMismatches the call
\* returns are those returned by any earlier call that differs from it in the
\* path object only.
C13_PlainSchemaIgnoresLocator ==
    PlainSchemaCall =>
        /\ schema.fresh <= 0
        /\ schema.doc = args.schema
        /\ heap.schema = args.schema
        /\ ~Threw("InvalidPathParameters")
        /\ ~Threw("ResponseDefinitionNotFound")
        /\ ~Threw("SchemaDefinitionNotFound")
        /\ Returned =>
                \A i \in DOMAIN history :
                    (SameButLocator(history[i]) /\ history[i].result.kind = "returned") =>
                        /\ result.errors = history[i].result.errors
                        /\ result.dataMismatches = history[i].result.dataMismatches

C13_Witness ==
    /\ PlainSchemaCall /\ Returned /\ ReportedInvalid
    /\ args.path = Locator(JsUndefined, JsUndefined, JsUndefined)
    /\ result.dataMismatches # args.data
    /\ \E i \in DOMAIN history :
            /\ SameButLocator(history[i])
            /\ history[i].result.kind = "returned"
            /\ history[i].args.path = NoLocator
            /\ history[i].result.errors = result.errors
            /\ history[i].result.dataMismatches = result.dataMismatches

\* an earlier call of the session with deep-equal data, schema, path object
\* and styles
SameArguments(h) == h.args = args

\* C14: a call whose arguments are deep-equal to those of an earlier call of
\* the process ends as that call did: it returns if that one returned, with
\* deep-equal errors, dataMismatches and issuesStyles; what the earlier call
\* left in the engine does not make it throw.
C14_SecondIdenticalCallSameOutcome ==
    pc = "done" =>
        \A i \in DOMAIN history :
            SameArguments(history[i]) =>
                /\ result.kind = history[i].result.kind
                /\ result.errors = history[i].result.errors
                /\ result.dataMismatches = history[i].result.dataMismatches
                /\ result.issuesStyles = history[i].result.issuesStyles

\* the Resolver built the schema of the call in progress
Resolved == pc # "idle" /\ schema.fresh > 0

\* C15: the identifier the Resolver generates for a call is registered in the
\* engine by no earlier call, and no earlier call of the process presented the
\* same identifier, the calls with the same path object included.
C15_GeneratedIdentifierIsFresh ==
    Resolved =>
        /\ pc = "validate" => SchemaId(schema.doc) \notin DOMAIN ajv.refs
        /\ \A i \in DOMAIN history :
                history[i].schema.fresh > 0 =>
                    SchemaId(history[i].schema.doc) # SchemaId(schema.doc)

\* the response the path object selects in the document, key by key: the one
\* at the status when there is one, else the default one
SelectedResponse ==
    LET atStatus == ValueAt(args.schema, ResponseLocation(ToStr(locator.status)))
    IN IF atStatus # Undefined THEN atStatus
       ELSE ValueAt(args.schema, ResponseLocation(<<"default">>))

RegistryKey ==
    IF Truthy(Prop(args.schema, <<"swagger">>)[<< >>])
    THEN <<"definitions">> ELSE <<"components">>

\* C16: the resolved schema is a new object whose $id is the generated
\* identifier, whose registry key (definitions / components) holds the
\* document's top-level registry, and whose every other field is the field of
\* the schema body; a body's own $id or registry key does not survive.
C16_ResolvedSchemaFields ==
    (ResolverRuns /\ Resolved) =>
        LET body == ValueAt(SelectedResponse, SchemaLocation)
            own == {<<"$id">>, RegistryKey}
        IN /\ schema.fresh = calls
           /\ \E random \in RandomTokens :
                Prop(schema.doc, <<"$id">>) =
                    Leaf(JsStr(random \o <<":">> \o ToStr(locator.endpoint) \o <<":">>
                                \o ToLowerCase(locator.method.s) \o <<":">>
                                \o ToStr(locator.status)))
           /\ Prop(schema.doc, RegistryKey) = Prop(args.schema, RegistryKey)
           /\ ChildKeys(schema.doc, << >>) = ChildKeys(body, << >>) \cup own
           /\ \A k \in ChildKeys(body, << >>) \ own :
                Prop(schema.doc, k) = Prop(body, k)

\* the entry of `paths` whose key is the endpoint, character for character
PathsEntry == ValueAt(args.schema, << <<"paths">>, ToStr(locator.endpoint) >>)

\* the responses of that entry under the lowercased method
EntryResponses ==
    ValueAt(PathsEntry, << ToLowerCase(locator.method.s), <<"responses">> >>)

\* C17: the Resolver looks at the entry of `paths` keyed exactly by the
\* endpoint (a "." in it included) and at no other, under the lowercased
\* method: with no such entry nothing is found; with one that has a response
\* for the status or a default, that response is the one resolved.
C17_EndpointLookupIsExact ==
    ResolverRuns =>
        LET atStatus == ValueAt(EntryResponses, <<ToStr(locator.status)>>)
            atDefault == ValueAt(EntryResponses, << <<"default">> >>)
            used == IF atStatus # Undefined THEN atStatus ELSE atDefault
        IN /\ PathsEntry = Undefined => Threw("ResponseDefinitionNotFound")
           /\ used # Undefined => ~Threw("ResponseDefinitionNotFound")
           /\ Resolved =>
                /\ used # Undefined
                /\ Prop(schema.doc, <<"type">>)
                        = Prop(ValueAt(used, SchemaLocation), <<"type">>)

\* the status key of the response SelectedResponse is taken from
SelectedStatus ==
    IF ValueAt(args.schema, ResponseLocation(ToStr(locator.status))) # Undefined
    THEN ToStr(locator.status) ELSE <<"default">>

\* C18: when the selected response (at the status, or the default one) has no
\* schema body at the sub-path, the call throws SchemaDefinitionNotFound and
\* the message names the path that was tried: the path of the selected
\* response followed by the sub-path.
C18_MissingBodyNamesAttemptedPath ==
    (/\ ResolverRuns
     /\ SelectedResponse # Undefined
     /\ ValueAt(SelectedResponse, SchemaLocation) = Undefined) =>
        /\ Threw("SchemaDefinitionNotFound")
        /\ result.message =
                <<"No schema definition found for path '">>
                    \o Join(ResponseLocation(SelectedStatus), ".") \o <<".">>
                    \o Join(SchemaLocation, ".") \o <<"'!">>

\* every entry of the registry is still there, unchanged, after the step
EntriesKept ==
    /\ ajv.cache \subseteq ajv'.cache
    /\ \A id \in DOMAIN ajv.refs :
            id \in DOMAIN ajv'.refs /\ ajv'.refs[id] = ajv.refs[id]

\* the step registers one new validator under an identifier that was not
\* registered
OneRegistered ==
    /\ Cardinality(ajv'.cache) = Cardinality(ajv.cache) + 1
    /\ \E id \in DOMAIN ajv'.refs :
            /\ id \notin DOMAIN ajv.refs
            /\ DOMAIN ajv'.refs = DOMAIN ajv.refs \cup {id}

\* C19: the registry of the shared engine is append-only: no step removes or
\* replaces an entry; the compilation of every call that reaches it registers
\* one new validator under an identifier not registered before; every other
\* step, the throw of a call that fails before compilation included, leaves
\* the registry as it is.
C19_RegistryAppendOnly ==
    [][/\ EntriesKept
       /\ pc = "validate" => OneRegistered
       /\ pc # "validate" => ajv' = ajv]_vars

====
